---- MODULE Spec2Model ----
(***************************************************************************)
(* Client-side extrinsic workflow of basedai:                              *)
(*   basedai/extrinsics/set_weights.py                                     *)
(*       ttl_set_weights_extrinsic, set_weights_extrinsic                  *)
(*   basedai/extrinsics/root.py                                            *)
(*       root_register_extrinsic, set_root_weights_extrinsic               *)
(*                                                                         *)
(* One caller makes up to MaxCalls calls, one after the other.  Unit 0 is  *)
(* the caller's own frame (a function of the repository running in the     *)
(* caller); unit i >= 1 is the multiprocessing.Process started by the i-th *)
(* call when that call is ttl_set_weights_extrinsic.  The chain client is  *)
(* the environment: it answers, raises, or does not answer at all.         *)
(***************************************************************************)
EXTENDS Integers, Sequences, FiniteSets, TLC

\* ------------------------------------------------------------- bounds
MaxCalls == 2
MaxMinAllowed == 2
MaxLen == 2        \* entries of an enumerated weight vector
MaxUid == 2        \* uids of an enumerated weight vector: 1..MaxUid
MaxWeight == 3     \* weights of an enumerated weight vector: -1..MaxWeight

U16_MAX == 65535

\* Python values a call can end with.  "Raised" is an exception reaching the
\* caller, "None" is a function falling off its end.
PyTrue == "True"
PyFalse == "False"
PyNone == "None"
Raised == "Raised"
Unset == "unset"

Children == 1..MaxCalls
Units == 0..MaxCalls

\* Weight vectors the caller passes (uids, weights), weights on an integer
\* scale: the vectors of the specification's examples and the malformed ones.
Vectors ==
    { [uids |-> <<10, 20, 30>>, weights |-> <<1, 3, 0>>],
      [uids |-> <<1, 2, 3>>,    weights |-> <<0, 1, -2>>],
      [uids |-> <<1, 1>>,       weights |-> <<2, 3>>],
      [uids |-> <<2, 1>>,       weights |-> <<6, 1>>],
      [uids |-> <<1, 2>>,       weights |-> <<0, 0>>],
      [uids |-> <<1, 2>>,       weights |-> <<1>>],
      [uids |-> <<1>>,          weights |-> <<0, 2>>],
      [uids |-> <<>>,           weights |-> <<>>] }

\* Every pair of lists within the bounds, of equal length or not.
SeqsUpTo(S, n) == UNION {[1..k -> S] : k \in 0..n}
EnumeratedVectors ==
    { [uids |-> u, weights |-> w] :
        u \in SeqsUpTo(1..MaxUid, MaxLen), w \in SeqsUpTo(-1..MaxWeight, MaxLen) }

VARIABLES
    ncalls,      \* calls started so far
    kind,        \* the function the current call entered
    cpc,         \* where the caller is
    ret,         \* what the current call gave its caller
    timedOut,    \* the current guarded call took the terminate branch
    spawned,     \* process.start() calls of the current call
    elapsed,     \* ttl has run out for the current join(timeout=ttl)
    unit,        \* the frames: unit[0] the caller's, unit[i] the i-th child
    registered,  \* chain: the computekey is registered on netuid 0
    regAtCall,   \* chain status at the moment the current call was made
    regAtStart,  \* what the first is_computekey_registered of the call saw
    regAtReturn, \* chain status at the moment the current call ended
    prev         \* <<outcome, return value>> of the last guarded call before
                 \* the current call

vars == <<ncalls, kind, cpc, ret, timedOut, spawned, elapsed, unit,
          registered, regAtCall, regAtStart, regAtReturn, prev>>

NoArgs == [wait_for_inclusion |-> FALSE, wait_for_finalization |-> FALSE,
           prompt |-> FALSE, uids |-> <<>>, weights |-> <<>>]

ArgSets == { [wait_for_inclusion |-> wi, wait_for_finalization |-> wf,
              prompt |-> p, uids |-> v.uids, weights |-> v.weights] :
             wi \in BOOLEAN, wf \in BOOLEAN, p \in BOOLEAN, v \in Vectors }

RegisterArgSets == { [NoArgs EXCEPT !.wait_for_inclusion = wi,
                                    !.wait_for_finalization = wf,
                                    !.prompt = p] :
                     wi \in BOOLEAN, wf \in BOOLEAN, p \in BOOLEAN }

NoOutcome == <<"none", Unset>>

\* No vector was handed to a function yet, no chain parameter read yet.
NotHanded == [uids |-> <<-1>>, weights |-> <<-1>>]
NotRead == -1

\* A frame: where it is (pc), what its function returned (result, outcome),
\* and what it did on the way: the prompt's answer (prompted, declined), the
\* chain reads (reads, readFailed, min_allowed), the vectors handed to the
\* normalizer and to the encoder (norm_in, conv_in), the pairs given to
\* _do_set_weights (emitted), the _do_* calls (issued) and their answer
\* (answer, success), the status reads after it (requeried), the payload of
\* a raised error (detail).
FreshUnit == [pc |-> "unborn", result |-> Unset, outcome |-> "none",
              signalled |-> FALSE, reaped |-> FALSE, args |-> NoArgs,
              issued |-> 0, requeried |-> 0, success |-> FALSE,
              prompted |-> FALSE, emitted |-> <<>>,
              declined |-> FALSE, answer |-> "none", reads |-> 0,
              readFailed |-> FALSE, min_allowed |-> NotRead,
              norm_in |-> NotHanded, conv_in |-> NotHanded,
              detail |-> <<>>]

Dead(u) == unit[u].pc \in {"exited", "killed"}
Alive(u) == unit[u].pc \notin {"unborn", "exited", "killed"}
LiveWorkers == {i \in Children : Alive(i)}

Init ==
    /\ ncalls = 0
    /\ kind = "none"
    /\ cpc = "idle"
    /\ ret = Unset
    /\ timedOut = FALSE
    /\ spawned = 0
    /\ elapsed = FALSE
    /\ unit = [u \in Units |-> FreshUnit]
    /\ registered \in BOOLEAN
    /\ regAtCall = FALSE
    /\ regAtStart = FALSE
    /\ regAtReturn = FALSE
    /\ prev = NoOutcome

\* ------------------------------------------------- weight preparation
RECURSIVE SeqMax(_)
SeqMax(s) ==
    IF Len(s) = 0 THEN 0
    ELSE LET m == SeqMax(Tail(s)) IN IF Head(s) > m THEN Head(s) ELSE m

\* Python's round(): to the nearest integer, a tie to the even one.
RoundHalfEven(n, d) ==
    LET q == n \div d
        r == n % d
    IN  IF 2 * r < d THEN q
        ELSE IF 2 * r > d THEN q + 1
        ELSE IF q % 2 = 0 THEN q ELSE q + 1

HasDuplicates(uids) ==
    \E i, j \in 1..Len(uids) : i # j /\ uids[i] = uids[j]

\* A malformed weight vector: duplicate uids, mismatched lengths, a negative
\* weight.
InvalidInput(uids, weights) ==
    \/ Len(uids) # Len(weights)
    \/ HasDuplicates(uids)
    \/ \E i \in 1..Len(weights) : weights[i] < 0

RECURSIVE InsertByUid(_, _)
InsertByUid(p, s) ==
    IF Len(s) = 0 THEN <<p>>
    ELSE IF p[1] <= Head(s)[1] THEN <<p>> \o s
    ELSE <<Head(s)>> \o InsertByUid(p, Tail(s))

RECURSIVE SortByUid(_)
SortByUid(s) ==
    IF Len(s) = 0 THEN <<>> ELSE InsertByUid(Head(s), SortByUid(Tail(s)))

\* weight_utils.convert_weights_and_uids_for_emit on a well-formed vector: the
\* pairs <<uid, value>>, value = round(w / max(weights) * 65535), by uid
\* ascending; a zero or empty vector is encoded as zeros.
convert_weights_and_uids_for_emit(uids, weights) ==
    LET m == SeqMax(weights)
        val(w) == IF m = 0 THEN 0 ELSE RoundHalfEven(w * U16_MAX, m)
    IN  SortByUid([i \in 1..Len(uids) |-> <<uids[i], val(weights[i])>>])

\* root.py 146-148: the positions of the weights > 0, and the netuids and
\* the weights at those positions.
non_zero_weight_idx(weights) == {i \in 1..Len(weights) : weights[i] > 0}

RECURSIVE TakeAt(_, _, _)
TakeAt(seq, idx, i) ==
    IF i > Len(seq) THEN <<>>
    ELSE (IF i \in idx THEN <<seq[i]>> ELSE <<>>) \o TakeAt(seq, idx, i + 1)

non_zero_weight_uids(netuids, weights) ==
    TakeAt(netuids, non_zero_weight_idx(weights), 1)
non_zero_weights(weights) == TakeAt(weights, non_zero_weight_idx(weights), 1)

\* The entries torch.argwhere(weights > 0) keeps.
NonZeroCount(weights) == Cardinality({i \in 1..Len(weights) : weights[i] > 0})

NoWait(a) == ~a.wait_for_finalization /\ ~a.wait_for_inclusion

\* ----------------------------------------------------- frames and calls
\* A function running in unit u ends with value r.  In unit 0 the value (or
\* the exception) goes to the caller; in a child the process exits and the
\* value is dropped with it.
FinishAs(u, frame, r, o) ==
    /\ unit' = [unit EXCEPT ![u] = [frame EXCEPT !.pc = "exited",
                                                 !.result = r,
                                                 !.outcome = o]]
    /\ IF u = 0
       THEN /\ cpc' = "returned"
            /\ ret' = r
            /\ regAtReturn' = registered
       ELSE UNCHANGED <<cpc, ret, regAtReturn>>

Finish(u, r, o) == FinishAs(u, unit[u], r, o)

\* The frames as a new call finds them: the caller's frame is new, and the
\* Process object of an earlier call is gone; of its child only what the
\* operating system keeps is left (running or not, reaped or not).
Forgotten ==
    [u \in Units |->
        IF u = 0 THEN FreshUnit
        ELSE IF Dead(u) THEN [FreshUnit EXCEPT !.pc = "exited",
                                               !.reaped = unit[u].reaped]
        ELSE unit[u]]

\* What a returned guarded call stands for: TimedOut on the terminate branch,
\* and the worker's own classification otherwise.
GuardOutcome == IF timedOut THEN "TimedOut" ELSE unit[ncalls].outcome

\* The caller takes the result of the call and goes on: the call's frame and
\* its Process object go out of scope.
CallerGoesOn ==
    /\ cpc = "returned"
    /\ cpc' = "idle"
    /\ kind' = "none"
    /\ ret' = Unset
    /\ timedOut' = FALSE
    /\ spawned' = 0
    /\ elapsed' = FALSE
    /\ regAtCall' = FALSE
    /\ regAtStart' = FALSE
    /\ regAtReturn' = FALSE
    /\ unit' = Forgotten
    /\ prev' = IF kind = "ttl" THEN <<GuardOutcome, ret>> ELSE prev
    /\ UNCHANGED <<ncalls, registered>>

CanCall == cpc = "idle" /\ ncalls < MaxCalls

\* The caller enters function k.
BeginCall(k) ==
    /\ CanCall
    /\ ncalls' = ncalls + 1
    /\ kind' = k
    /\ regAtCall' = registered
    /\ UNCHANGED <<ret, timedOut, elapsed, registered, regAtStart,
                   regAtReturn, prev>>

\* ------------------------------------------- ttl_set_weights_extrinsic
\* set_weights.py 45-57: build args, create the process, start it.
ttl_Start ==
    \E a \in ArgSets :
        /\ BeginCall("ttl")
        /\ spawned' = 1
        /\ unit' = [unit EXCEPT ![ncalls + 1] = [FreshUnit EXCEPT !.pc = "convert",
                                                                       !.args = a]]
        /\ cpc' = "join_timeout"

\* The ttl of process.join(timeout=ttl) runs out.
TtlElapses ==
    /\ cpc = "join_timeout"
    /\ ~elapsed
    /\ elapsed' = TRUE
    /\ UNCHANGED <<ncalls, kind, cpc, ret, timedOut, spawned, unit,
                   registered, regAtCall, regAtStart, regAtReturn, prev>>

\* set_weights.py 58: join(timeout=ttl) returns when the child is dead (and
\* reaps it) or when ttl has run out.
ttl_JoinTimeout ==
    /\ cpc = "join_timeout"
    /\ Dead(ncalls) \/ elapsed
    /\ unit' = [unit EXCEPT ![ncalls].reaped = Dead(ncalls)]
    /\ cpc' = "is_alive"
    /\ UNCHANGED <<ncalls, kind, ret, timedOut, spawned, elapsed,
                   registered, regAtCall, regAtStart, regAtReturn, prev>>

\* ttl_IsAlive with the timeout branch returning at once: no terminate, no
\* join.
ttl_IsAlive_NoReclaim ==
    /\ cpc = "is_alive"
    /\ cpc' = "returned"
    /\ timedOut' = Alive(ncalls)
    /\ ret' = IF Alive(ncalls) THEN PyFalse ELSE PyTrue
    /\ regAtReturn' = registered
    /\ unit' = [unit EXCEPT ![ncalls].reaped = ~Alive(ncalls)]
    /\ UNCHANGED <<ncalls, kind, spawned, elapsed, registered, regAtCall,
                   regAtStart, prev>>

\* set_weights.py 59, 63: is_alive() polls (and reaps) the child; a dead child
\* means return True, a live one the terminate branch.
ttl_IsAlive ==
    /\ cpc = "is_alive"
    /\ IF Alive(ncalls)
       THEN /\ cpc' = "terminate"
            /\ timedOut' = TRUE
            /\ UNCHANGED <<ret, unit, regAtReturn>>
       ELSE /\ cpc' = "returned"
            /\ ret' = PyTrue
            /\ regAtReturn' = registered
            /\ unit' = [unit EXCEPT ![ncalls].reaped = TRUE]
            /\ UNCHANGED timedOut
    /\ UNCHANGED <<ncalls, kind, spawned, elapsed, registered, regAtCall,
                   regAtStart, prev>>

\* ttl_Terminate that sends no signal.
ttl_Terminate_NoSignal ==
    /\ cpc = "terminate"
    /\ cpc' = "join"
    /\ UNCHANGED <<ncalls, kind, ret, timedOut, spawned, elapsed, unit,
                   registered, regAtCall, regAtStart, regAtReturn, prev>>

\* set_weights.py 60: terminate() sends SIGTERM to the child.
ttl_Terminate ==
    /\ cpc = "terminate"
    /\ unit' = [unit EXCEPT ![ncalls].signalled = TRUE]
    /\ cpc' = "join"
    /\ UNCHANGED <<ncalls, kind, ret, timedOut, spawned, elapsed,
                   registered, regAtCall, regAtStart, regAtReturn, prev>>

\* ttl_Join with the timeout branch returning True like the normal one.
ttl_Join_ReturnsTrue ==
    /\ cpc = "join"
    /\ Dead(ncalls)
    /\ unit' = [unit EXCEPT ![ncalls].reaped = TRUE]
    /\ cpc' = "returned"
    /\ ret' = PyTrue
    /\ regAtReturn' = registered
    /\ UNCHANGED <<ncalls, kind, timedOut, spawned, elapsed, registered,
                   regAtCall, regAtStart, prev>>

\* set_weights.py 61-62: join() blocks until the child is dead, then the call
\* returns False.
ttl_Join ==
    /\ cpc = "join"
    /\ Dead(ncalls)
    /\ unit' = [unit EXCEPT ![ncalls].reaped = TRUE]
    /\ cpc' = "returned"
    /\ ret' = PyFalse
    /\ regAtReturn' = registered
    /\ UNCHANGED <<ncalls, kind, timedOut, spawned, elapsed, registered,
                   regAtCall, regAtStart, prev>>

\* The kernel delivers SIGTERM: a child that installed no handler dies,
\* wherever it is.
Die(i) ==
    /\ i \in Children
    /\ Alive(i)
    /\ unit[i].signalled
    /\ unit' = [unit EXCEPT ![i].pc = "killed"]
    /\ UNCHANGED <<ncalls, kind, cpc, ret, timedOut, spawned, elapsed,
                   registered, regAtCall, regAtStart, regAtReturn, prev>>

\* ----------------------------------------------- set_weights_extrinsic
\* What the steps of a function in unit u leave alone besides unit, cpc, ret
\* and regAtReturn.
FrameUnchanged ==
    UNCHANGED <<ncalls, kind, timedOut, spawned, elapsed, registered,
                regAtCall, regAtStart, prev>>

\* A direct call: set_weights_extrinsic runs in the caller's frame.
sw_Call(a) ==
    /\ BeginCall("set_weights")
    /\ spawned' = 0
    /\ unit' = [unit EXCEPT ![0] = [FreshUnit EXCEPT !.pc = "convert",
                                                          !.args = a]]
    /\ cpc' = "running"

sw_Start == \E a \in ArgSets : sw_Call(a)

\* sw_Convert that pairs the uids with the caller's weights as they are.
sw_Convert_Unscaled(u) ==
    /\ unit[u].pc = "convert"
    /\ LET a == unit[u].args
           handed == [uids |-> a.uids, weights |-> a.weights] IN
       IF InvalidInput(handed.uids, handed.weights)
       THEN FinishAs(u, [unit[u] EXCEPT !.conv_in = handed], Raised, "InvalidInput")
       ELSE /\ unit' = [unit EXCEPT
                  ![u].pc = IF a.prompt THEN "confirm" ELSE "submit",
                  ![u].conv_in = handed,
                  ![u].emitted = SortByUid([i \in 1..Len(a.uids) |->
                                               <<a.uids[i], a.weights[i]>>])]
            /\ UNCHANGED <<cpc, ret, regAtReturn>>
    /\ FrameUnchanged

\* set_weights.py 102-113: connect, convert types, convert_weights_and_uids_
\* for_emit outside the try block: its error leaves the function.
sw_Convert(u) ==
    /\ unit[u].pc = "convert"
    /\ LET a == unit[u].args IN
       LET handed == [uids |-> a.uids, weights |-> a.weights] IN
       IF InvalidInput(handed.uids, handed.weights)
       THEN FinishAs(u, [unit[u] EXCEPT !.conv_in = handed], Raised, "InvalidInput")
       ELSE /\ unit' = [unit EXCEPT
                  ![u].pc = IF a.prompt THEN "confirm" ELSE "submit",
                  ![u].conv_in = handed,
                  ![u].emitted = convert_weights_and_uids_for_emit(handed.uids,
                                                                   handed.weights)]
            /\ UNCHANGED <<cpc, ret, regAtReturn>>
    /\ FrameUnchanged

\* set_weights.py 116-122: Confirm.ask; a declined prompt returns False.
sw_Confirm(u) ==
    /\ unit[u].pc = "confirm"
    /\ \E yes \in BOOLEAN :
        IF yes
        THEN /\ unit' = [unit EXCEPT ![u].pc = "submit", ![u].prompted = TRUE]
             /\ UNCHANGED <<cpc, ret, regAtReturn>>
        ELSE FinishAs(u, [unit[u] EXCEPT !.declined = TRUE], PyFalse, "Aborted")
    /\ FrameUnchanged

\* set_weights.py 128-136: _do_set_weights is called; the call blocks on the
\* chain client.
sw_Submit(u) ==
    /\ unit[u].pc = "submit"
    /\ unit' = [unit EXCEPT ![u].pc = "in_flight",
                            ![u].issued = unit[u].issued + 1]
    /\ UNCHANGED <<cpc, ret, regAtReturn>>
    /\ FrameUnchanged

\* sw_Result that submits again after a rejection or an exception.
sw_Result_Retry(u) ==
    /\ unit[u].pc = "in_flight"
    /\ \E ans \in {"success", "failure", "raise"} :
        IF ans = "success"
        THEN FinishAs(u, [unit[u] EXCEPT !.answer = ans], PyTrue,
                      IF NoWait(unit[u].args) THEN "Unconfirmed" ELSE "Confirmed")
        ELSE /\ unit[u].issued < 3
             /\ unit' = [unit EXCEPT ![u].pc = "submit"]
             /\ UNCHANGED <<cpc, ret, regAtReturn>>
    /\ FrameUnchanged

\* sw_Result that looks at the success flag before the wait flags.
sw_Result_SuccessFirst(u) ==
    /\ unit[u].pc = "in_flight"
    /\ \E ans \in {"success", "failure", "raise"} :
        LET f == [unit[u] EXCEPT !.answer = ans] IN
        IF ans = "raise" THEN FinishAs(u, f, PyFalse, "TransportError")
        ELSE IF ans = "failure" THEN FinishAs(u, f, PyFalse, "Rejected")
        ELSE FinishAs(u, f, PyTrue, IF NoWait(unit[u].args) THEN "Unconfirmed"
                                                           ELSE "Confirmed")
    /\ FrameUnchanged

\* set_weights.py 138-168: _do_set_weights returns (success, error_message)
\* or raises; the result is classified.
sw_Result(u) ==
    /\ unit[u].pc = "in_flight"
    /\ \E ans \in {"success", "failure", "raise"} :
        LET f == [unit[u] EXCEPT !.answer = ans] IN
        IF ans = "raise" THEN FinishAs(u, f, PyFalse, "TransportError")
        ELSE IF NoWait(unit[u].args) THEN FinishAs(u, f, PyTrue, "Unconfirmed")
        ELSE IF ans = "success" THEN FinishAs(u, f, PyTrue, "Confirmed")
        ELSE FinishAs(u, f, PyFalse, "Rejected")
    /\ FrameUnchanged

\* ------------------------------------------ set_root_weights_extrinsic
rw_Call(a) ==
    /\ BeginCall("set_root_weights")
    /\ spawned' = 0
    /\ unit' = [unit EXCEPT ![0] = [FreshUnit EXCEPT !.pc = "rw_params",
                                                          !.args = a]]
    /\ cpc' = "running"

rw_Start == \E a \in ArgSets : rw_Call(a)

\* rw_Restrictions that counts every entry, not the entries with weight > 0.
rw_Restrictions_CountsAll ==
    /\ unit[0].pc = "rw_params"
    /\ LET a == unit[0].args IN
       \E failAt \in 0..2, min_allowed_weights \in 0..MaxMinAllowed :
        LET f == [unit[0] EXCEPT !.reads = 2, !.min_allowed = min_allowed_weights]
        IN
        IF failAt # 0
        THEN FinishAs(0, [unit[0] EXCEPT !.reads = failAt, !.readFailed = TRUE],
                      Raised, "ChainQueryError")
        ELSE IF \E i \in 1..Len(a.weights) : a.weights[i] > 0 /\ i > Len(a.uids)
        THEN FinishAs(0, f, Raised, "IndexError")
        ELSE IF Len(a.weights) < min_allowed_weights
        THEN FinishAs(0, [f EXCEPT !.detail = <<min_allowed_weights,
                                                Len(a.weights)>>],
                      Raised, "InsufficientWeights")
        ELSE /\ unit' = [unit EXCEPT ![0] = [f EXCEPT
                   !.pc = IF a.prompt THEN "rw_confirm" ELSE "rw_submit",
                   !.norm_in = [uids |-> a.uids, weights |-> a.weights]]]
             /\ UNCHANGED <<cpc, ret, regAtReturn>>
    /\ FrameUnchanged

\* root.py 136-162: convert types, read min_allowed_weights and
\* max_weight_limit (the first or the second read may raise), keep the
\* entries with weight > 0 (indexing netuids with them) and raise ValueError
\* with the required and the actual count when they are fewer than
\* min_allowed_weights; then normalize_max_weight(x=weights), whose result is
\* printed and shown in the prompt only.
rw_Restrictions ==
    /\ unit[0].pc = "rw_params"
    /\ LET a == unit[0].args IN
       \E failAt \in 0..2, min_allowed_weights \in 0..MaxMinAllowed :
        LET f == [unit[0] EXCEPT !.reads = 2, !.min_allowed = min_allowed_weights]
        IN
        IF failAt # 0
        THEN FinishAs(0, [unit[0] EXCEPT !.reads = failAt, !.readFailed = TRUE],
                      Raised, "ChainQueryError")
        ELSE IF \E i \in 1..Len(a.weights) : a.weights[i] > 0 /\ i > Len(a.uids)
        THEN FinishAs(0, f, Raised, "IndexError")
        ELSE IF NonZeroCount(a.weights) < min_allowed_weights
        THEN FinishAs(0, [f EXCEPT !.detail = <<min_allowed_weights,
                                                NonZeroCount(a.weights)>>],
                      Raised, "InsufficientWeights")
        ELSE /\ unit' = [unit EXCEPT ![0] = [f EXCEPT
                   !.pc = IF a.prompt THEN "rw_confirm" ELSE "rw_submit",
                   !.norm_in = [uids |-> a.uids, weights |-> a.weights]]]
             /\ UNCHANGED <<cpc, ret, regAtReturn>>
    /\ FrameUnchanged

\* rw_Confirm whose declined prompt falls through to the submission.
rw_Confirm_FallsThrough ==
    /\ unit[0].pc = "rw_confirm"
    /\ \E yes \in BOOLEAN :
        unit' = [unit EXCEPT ![0].pc = "rw_submit", ![0].prompted = yes,
                             ![0].declined = ~yes]
    /\ UNCHANGED <<cpc, ret, regAtReturn>>
    /\ FrameUnchanged

\* root.py 165-171: Confirm.ask; a declined prompt returns False.
rw_Confirm ==
    /\ unit[0].pc = "rw_confirm"
    /\ \E yes \in BOOLEAN :
        IF yes
        THEN /\ unit' = [unit EXCEPT ![0].pc = "rw_submit", ![0].prompted = TRUE]
             /\ UNCHANGED <<cpc, ret, regAtReturn>>
        ELSE FinishAs(0, [unit[0] EXCEPT !.declined = TRUE], PyFalse, "Aborted")
    /\ FrameUnchanged

\* root.py 178-190: inside the try block, convert_weights_and_uids_for_emit
\* on the caller's netuids and weights (its error is caught: return False),
\* then _do_set_weights is called.
rw_Submit ==
    /\ unit[0].pc = "rw_submit"
    /\ LET a == unit[0].args
           handed == [uids |-> a.uids, weights |-> a.weights] IN
       IF InvalidInput(handed.uids, handed.weights)
       THEN FinishAs(0, [unit[0] EXCEPT !.conv_in = handed], PyFalse, "InvalidInput")
       ELSE /\ unit' = [unit EXCEPT
                  ![0].pc = "rw_in_flight",
                  ![0].conv_in = handed,
                  ![0].emitted = convert_weights_and_uids_for_emit(handed.uids,
                                                                   handed.weights),
                  ![0].issued = unit[0].issued + 1]
            /\ UNCHANGED <<cpc, ret, regAtReturn>>
    /\ FrameUnchanged

\* rw_Result that returns True after every answer of _do_set_weights.
rw_Result_IgnoresSuccess ==
    /\ unit[0].pc = "rw_in_flight"
    /\ \E ans \in {"success", "failure", "raise"} :
        LET f == [unit[0] EXCEPT !.answer = ans] IN
        IF ans = "raise" THEN FinishAs(0, f, PyFalse, "TransportError")
        ELSE FinishAs(0, f, PyTrue, IF NoWait(unit[0].args) THEN "Unconfirmed"
                                                           ELSE "Confirmed")
    /\ FrameUnchanged

\* rw_Result that tests the wait flags before anything else.
rw_Result_NoWaitFirst ==
    /\ unit[0].pc = "rw_in_flight"
    /\ \E ans \in {"success", "failure", "raise"} :
        LET f == [unit[0] EXCEPT !.answer = ans] IN
        IF NoWait(unit[0].args) THEN FinishAs(0, f, PyTrue, "Unconfirmed")
        ELSE IF ans = "raise" THEN FinishAs(0, f, PyFalse, "TransportError")
        ELSE IF ans = "success" THEN FinishAs(0, f, PyTrue, "Confirmed")
        ELSE FinishAs(0, f, PyFalse, "Rejected")
    /\ FrameUnchanged

\* root.py 192-224: _do_set_weights returns (success, error_message) or
\* raises; the result is classified.
rw_Result ==
    /\ unit[0].pc = "rw_in_flight"
    /\ \E ans \in {"success", "failure", "raise"} :
        LET f == [unit[0] EXCEPT !.answer = ans] IN
        IF ans = "raise" THEN FinishAs(0, f, PyFalse, "TransportError")
        ELSE IF NoWait(unit[0].args) THEN FinishAs(0, f, PyTrue, "Unconfirmed")
        ELSE IF ans = "success" THEN FinishAs(0, f, PyTrue, "Confirmed")
        ELSE FinishAs(0, f, PyFalse, "Rejected")
    /\ FrameUnchanged

\* --------------------------------------------- root_register_extrinsic
rr_Start ==
    \E a \in RegisterArgSets :
        /\ BeginCall("root_register")
        /\ spawned' = 0
        /\ unit' = [unit EXCEPT ![0] = [FreshUnit EXCEPT !.pc = "rr_query",
                                                              !.args = a]]
        /\ cpc' = "running"

\* rr_Query that reads the status and goes on to submit whatever it is.
rr_Query_NoShortCircuit ==
    /\ unit[0].pc = "rr_query"
    /\ regAtStart' = registered
    /\ unit' = [unit EXCEPT
          ![0].pc = IF unit[0].args.prompt THEN "rr_confirm" ELSE "rr_submit",
          ![0].reads = 1]
    /\ UNCHANGED <<cpc, ret, regAtReturn>>
    /\ UNCHANGED <<ncalls, kind, timedOut, spawned, elapsed, registered,
                   regAtCall, prev>>

\* rr_Query that takes a failed read for "not registered" and goes on.
rr_Query_SwallowsError ==
    /\ unit[0].pc = "rr_query"
    /\ \E readOk \in BOOLEAN :
        /\ regAtStart' = (readOk /\ registered)
        /\ IF readOk /\ registered
           THEN FinishAs(0, [unit[0] EXCEPT !.reads = 1], PyTrue, "Confirmed")
           ELSE /\ unit' = [unit EXCEPT
                      ![0].pc = IF unit[0].args.prompt THEN "rr_confirm"
                                                      ELSE "rr_submit",
                      ![0].reads = 1,
                      ![0].readFailed = ~readOk]
                /\ UNCHANGED <<cpc, ret, regAtReturn>>
    /\ UNCHANGED <<ncalls, kind, timedOut, spawned, elapsed, registered,
                   regAtCall, prev>>

\* root.py 56-65: is_computekey_registered(netuid=0) (the read may raise); a
\* registered computekey returns True at once.
rr_Query ==
    /\ unit[0].pc = "rr_query"
    /\ \E readOk \in BOOLEAN :
        IF ~readOk
        THEN /\ FinishAs(0, [unit[0] EXCEPT !.reads = 1, !.readFailed = TRUE],
                         Raised, "ChainQueryError")
             /\ UNCHANGED regAtStart
        ELSE /\ regAtStart' = registered
             /\ IF registered
                THEN FinishAs(0, [unit[0] EXCEPT !.reads = 1], PyTrue, "Confirmed")
                ELSE /\ unit' = [unit EXCEPT
                           ![0].pc = IF unit[0].args.prompt THEN "rr_confirm"
                                                           ELSE "rr_submit",
                           ![0].reads = 1]
                     /\ UNCHANGED <<cpc, ret, regAtReturn>>
    /\ UNCHANGED <<ncalls, kind, timedOut, spawned, elapsed, registered,
                   regAtCall, prev>>

\* root.py 67-70: Confirm.ask; a declined prompt returns False.
rr_Confirm ==
    /\ unit[0].pc = "rr_confirm"
    /\ \E yes \in BOOLEAN :
        IF yes
        THEN /\ unit' = [unit EXCEPT ![0].pc = "rr_submit", ![0].prompted = TRUE]
             /\ UNCHANGED <<cpc, ret, regAtReturn>>
        ELSE FinishAs(0, [unit[0] EXCEPT !.declined = TRUE], PyFalse, "Aborted")
    /\ FrameUnchanged

\* root.py 75-79: _do_root_register is called; the call blocks on the chain
\* client.
rr_Submit ==
    /\ unit[0].pc = "rr_submit"
    /\ unit' = [unit EXCEPT ![0].pc = "rr_in_flight",
                            ![0].issued = unit[0].issued + 1]
    /\ UNCHANGED <<cpc, ret, regAtReturn>>
    /\ FrameUnchanged

\* rr_Return that goes on to the final check after a reported failure too.
rr_Return_AlwaysCheck ==
    /\ unit[0].pc = "rr_in_flight"
    /\ \E ans \in {"success", "failure", "raise"} :
        IF ans = "raise"
        THEN FinishAs(0, [unit[0] EXCEPT !.answer = ans], Raised, "TransportError")
        ELSE /\ unit' = [unit EXCEPT ![0].pc = "rr_check",
                                     ![0].answer = ans,
                                     ![0].success = (ans = "success")]
             /\ UNCHANGED <<cpc, ret, regAtReturn>>
    /\ FrameUnchanged

\* root.py 75-85: _do_root_register returns (success, err_msg) or raises (not
\* caught).  On success != True the error is printed and the function runs
\* off its end; otherwise it goes on to the final check.
rr_Return ==
    /\ unit[0].pc = "rr_in_flight"
    /\ \E ans \in {"success", "failure", "raise"} :
        LET f == [unit[0] EXCEPT !.answer = ans] IN
        IF ans = "raise" THEN FinishAs(0, f, Raised, "TransportError")
        ELSE IF ans = "failure" THEN FinishAs(0, f, PyNone, "Rejected")
        ELSE /\ unit' = [unit EXCEPT ![0] = [f EXCEPT !.pc = "rr_check",
                                                      !.success = TRUE]]
             /\ UNCHANGED <<cpc, ret, regAtReturn>>
    /\ FrameUnchanged

\* rr_Check that reads the status and returns True whatever it is.
rr_Check_TrustsSuccess ==
    /\ unit[0].pc = "rr_check"
    /\ unit' = [unit EXCEPT ![0].pc = "exited", ![0].result = PyTrue,
                            ![0].outcome = "Confirmed",
                            ![0].reads = unit[0].reads + 1,
                            ![0].requeried = unit[0].requeried + 1]
    /\ cpc' = "returned"
    /\ ret' = PyTrue
    /\ regAtReturn' = registered
    /\ FrameUnchanged

\* root.py 88-101: the final is_computekey_registered (the read may raise);
\* registered returns True, not registered prints and runs off the end.
rr_Check ==
    /\ unit[0].pc = "rr_check"
    /\ \E readOk \in BOOLEAN :
        IF ~readOk
        THEN /\ unit' = [unit EXCEPT ![0].pc = "exited", ![0].result = Raised,
                                     ![0].outcome = "ChainQueryError",
                                     ![0].readFailed = TRUE,
                                     ![0].reads = unit[0].reads + 1,
                                     ![0].requeried = unit[0].requeried + 1]
             /\ cpc' = "returned"
             /\ ret' = Raised
             /\ regAtReturn' = registered
        ELSE IF registered
        THEN /\ unit' = [unit EXCEPT ![0].pc = "exited", ![0].result = PyTrue,
                                     ![0].outcome = "Confirmed",
                                     ![0].reads = unit[0].reads + 1,
                                     ![0].requeried = unit[0].requeried + 1]
             /\ cpc' = "returned"
             /\ ret' = PyTrue
             /\ regAtReturn' = registered
        ELSE /\ unit' = [unit EXCEPT ![0].pc = "exited", ![0].result = PyNone,
                                     ![0].outcome = "NotObserved",
                                     ![0].reads = unit[0].reads + 1,
                                     ![0].requeried = unit[0].requeried + 1]
             /\ cpc' = "returned"
             /\ ret' = PyNone
             /\ regAtReturn' = registered
    /\ FrameUnchanged

\* The chain: the computekey becomes registered on netuid 0 (this client's
\* submission taking effect, at once or late, or another client's), and
\* stays registered.
ChainRegisters ==
    /\ ~registered
    /\ registered' = TRUE
    /\ UNCHANGED <<ncalls, kind, cpc, ret, timedOut, spawned, elapsed, unit,
                   regAtCall, regAtStart, regAtReturn, prev>>

Next ==
    \/ ttl_Start
    \/ TtlElapses
    \/ ttl_JoinTimeout
    \/ ttl_IsAlive
    \/ ttl_Terminate
    \/ ttl_Join
    \/ \E i \in Children : Die(i)
    \/ sw_Start
    \/ \E u \in Units : sw_Convert(u)
    \/ \E u \in Units : sw_Confirm(u)
    \/ \E u \in Units : sw_Submit(u)
    \/ \E u \in Units : sw_Result(u)
    \/ rw_Start
    \/ rw_Restrictions
    \/ rw_Confirm
    \/ rw_Submit
    \/ rw_Result
    \/ rr_Start
    \/ rr_Query
    \/ rr_Confirm
    \/ rr_Submit
    \/ rr_Return
    \/ rr_Check
    \/ ChainRegisters
    \/ CallerGoesOn

Spec == Init /\ [][Next]_vars

\* The two set-weights functions called once, directly and without a prompt,
\* on every weight vector within the bounds.
EnumeratedArgSets ==
    { [wait_for_inclusion |-> wi, wait_for_finalization |-> FALSE,
       prompt |-> FALSE, uids |-> v.uids, weights |-> v.weights] :
      wi \in BOOLEAN, v \in EnumeratedVectors }

sw_StartEnumerated == CanCall /\ \E a \in EnumeratedArgSets : sw_Call(a)
rw_StartEnumerated == CanCall /\ \E a \in EnumeratedArgSets : rw_Call(a)

EncodeNext ==
    \/ sw_StartEnumerated
    \/ sw_Convert(0)
    \/ sw_Submit(0)
    \/ sw_Result(0)
    \/ rw_StartEnumerated
    \/ rw_Restrictions
    \/ rw_Submit
    \/ rw_Result

EncodeSpec == Init /\ [][EncodeNext]_vars

\* The guard and the kernel are scheduled: a running timer runs out, the
\* caller's own statements are executed, a sent signal is delivered.  Nothing
\* is assumed of the child or of the chain client: either may hang for ever.
FairSpec ==
    /\ Spec
    /\ WF_vars(TtlElapses)
    /\ WF_vars(ttl_JoinTimeout)
    /\ WF_vars(ttl_IsAlive)
    /\ WF_vars(ttl_Terminate)
    /\ WF_vars(ttl_Join)
    /\ \A i \in Children : WF_vars(Die(i))

\* ------------------------------------------------------------ claims
GuardReturned == kind = "ttl" /\ cpc = "returned"
RegisterReturned == kind = "root_register" /\ cpc = "returned"
FourOutcomes == {"Confirmed", "Rejected", "TimedOut", "Unconfirmed"}

\* C1: when the worker finishes before ttl elapses with a success or an
\* explicit failure, the guarded call returns the worker's own result.
C1_GuardPropagatesResult ==
    (GuardReturned /\ ~elapsed /\ ~timedOut
        /\ unit[ncalls].result \in {PyTrue, PyFalse})
    => ret = unit[ncalls].result

\* C2: a guarded call that found its worker alive after join(timeout=ttl) has
\* not returned a success value, and when it returns it has sent the worker
\* the termination signal, the worker is dead, and the value is False.
C2_TimedOutNeverSuccess ==
    /\ (kind = "ttl" /\ cpc \in {"terminate", "join"}) => timedOut
    /\ (kind = "ttl" /\ timedOut) =>
          /\ ret # PyTrue
          /\ cpc = "returned" =>
                /\ ret = PyFalse
                /\ unit[ncalls].signalled
                /\ Dead(ncalls)

C2_Witness ==
    /\ GuardReturned
    /\ timedOut
    /\ unit[ncalls].issued = 1
    /\ unit[ncalls].result = PyTrue

\* C3: two guarded calls that ended in different ones of the outcomes
\* Confirmed, Rejected, TimedOut, Unconfirmed returned different values.
C3_OutcomesDistinct ==
    (/\ GuardReturned
     /\ prev[1] \in FourOutcomes
     /\ GuardOutcome \in FourOutcomes
     /\ prev[1] # GuardOutcome)
    => prev[2] # ret

\* C4: outside a guarded call in progress no worker is alive, and every
\* worker ever started has been reaped; in particular when a guarded call
\* returns, on either path.
C4_WorkerReclaimed ==
    (kind # "ttl" \/ cpc = "returned") =>
        /\ LiveWorkers = {}
        /\ \A i \in Children : unit[i].pc # "unborn" => unit[i].reaped

C4_Witness ==
    /\ ncalls = 2
    /\ GuardReturned
    /\ timedOut
    /\ unit[1].pc = "exited"
    /\ unit[1].reaped
    /\ unit[2].pc = "killed"

\* C5: every guarded call returns, whatever its worker does.
C5_GuardReturns ==
    (kind = "ttl" /\ cpc = "join_timeout") ~> (kind = "ttl" /\ cpc = "returned")

C5_Witness ==
    /\ GuardReturned
    /\ unit[ncalls].pc = "killed"
    /\ unit[ncalls].issued = 1
    /\ unit[ncalls].result = Unset

\* C6: a guarded call has started exactly one worker, and no call, in no
\* frame, has issued _do_set_weights more than once.
C6_OneWorkerOneSubmission ==
    /\ kind = "ttl" =>
          /\ spawned = 1
          /\ unit[ncalls].pc # "unborn"
    /\ kind \in {"set_weights", "set_root_weights"} => spawned = 0
    /\ \A u \in Units : unit[u].issued <= 1

C6_Witness ==
    /\ GuardReturned
    /\ ~timedOut
    /\ unit[ncalls].outcome \in {"Rejected", "TransportError"}
    /\ unit[ncalls].issued = 1

\* C7: a root_register_extrinsic call whose first status read says registered
\* returns True with no prompt and no _do_root_register; and a call made when
\* the computekey was already registered issues no _do_root_register.
C7_RegisteredShortCircuits ==
    kind = "root_register" =>
        /\ regAtStart =>
              /\ cpc = "returned"
              /\ ret = PyTrue
              /\ unit[0].issued = 0
              /\ ~unit[0].prompted
        /\ regAtCall => unit[0].issued = 0

C7_Witness ==
    /\ ncalls = 2
    /\ RegisterReturned
    /\ regAtCall
    /\ regAtStart
    /\ ret = PyTrue
    /\ unit[0].issued = 0

\* A root_register_extrinsic call that issued _do_root_register and got its
\* answer (it did not raise) has returned.
SubmissionAnswered ==
    /\ RegisterReturned
    /\ unit[0].issued = 1
    /\ unit[0].outcome # "TransportError"

\* C8 (as claimed): after _do_root_register has returned, the status is read
\* again exactly once, on reported success and on reported failure alike.
C8_RequeriedAlways == SubmissionAnswered => unit[0].requeried = 1

\* C8 (amended): after _do_root_register has returned, the status is read
\* again exactly once when it reported success, and not at all when it
\* reported failure.
C8_RequeriedOnSuccessOnly ==
    /\ kind = "root_register" => unit[0].requeried <= 1
    /\ SubmissionAnswered =>
          unit[0].requeried = (IF unit[0].success THEN 1 ELSE 0)

C8_Witness ==
    /\ SubmissionAnswered
    /\ unit[0].success
    /\ unit[0].requeried = 1
    /\ ret = PyTrue

\* The call ended with a value (no exception reached the caller).
GaveValue == ret \in {PyTrue, PyFalse, PyNone}

C10_DefiniteBoolean ==
    (RegisterReturned /\ ret # Raised) => ret \in {PyTrue, PyFalse}

\* The frame of set_weights_extrinsic or set_root_weights_extrinsic: the
\* direct call's frame 0, or a worker's frame.
SetWeightsFrame(u) ==
    \/ u = 0 /\ kind \in {"set_weights", "set_root_weights"}
    \/ u \in 1..spawned
Returned(u) == unit[u].pc = "exited" /\ unit[u].outcome # "none"

\* C11: in root_register_extrinsic, set_root_weights_extrinsic and
\* set_weights_extrinsic a declined prompt ends the call at once with False
\* and with no _do_root_register / _do_set_weights issued; and a call is
\* aborted only by a declined answer to a prompt that was asked for.
C11_DeclineAbortsUnsubmitted ==
    \A u \in 0..spawned :
        /\ unit[u].declined =>
              /\ unit[u].pc = "exited"
              /\ unit[u].result = PyFalse
              /\ unit[u].issued = 0
              /\ (u = 0 /\ kind # "ttl" /\ cpc = "returned") => ret = PyFalse
        /\ unit[u].outcome = "Aborted" =>
              unit[u].declined /\ unit[u].args.prompt /\ ~unit[u].prompted

C11_Witness ==
    /\ kind = "root_register" /\ cpc = "returned"
    /\ unit[0].declined /\ ret = PyFalse /\ unit[0].issued = 0

\* _do_set_weights was called by frame u and gave back (success, message).
Answered(u) ==
    /\ SetWeightsFrame(u)
    /\ Returned(u)
    /\ unit[u].issued = 1
    /\ unit[u].answer \in {"success", "failure"}

\* C12: in set_weights_extrinsic and set_root_weights_extrinsic, with neither
\* wait flag set, a call whose _do_set_weights returned gives True whatever
\* the success flag was, and its outcome is Unconfirmed.
C12_NoWaitReturnsTrue ==
    \A u \in 0..spawned :
        (Answered(u) /\ NoWait(unit[u].args)) =>
            /\ unit[u].result = PyTrue
            /\ unit[u].outcome = "Unconfirmed"
            /\ (u = 0 /\ cpc = "returned") => ret = PyTrue

C12_Witness ==
    /\ kind = "set_root_weights" /\ cpc = "returned"
    /\ Answered(0) /\ NoWait(unit[0].args)
    /\ unit[0].answer = "failure" /\ ret = PyTrue

\* C13 (as claimed): a root_register_extrinsic call made with neither wait
\* flag set that submitted (not registered at the start, prompt accepted if
\* asked) returns True whatever _do_root_register gave back.
C13_NoWaitRegisterReturnsTrue ==
    (RegisterReturned /\ NoWait(unit[0].args)
        /\ unit[0].issued = 1 /\ unit[0].answer \in {"success", "failure"}
        /\ GaveValue)
        => ret = PyTrue

\* C14: in set_weights_extrinsic and set_root_weights_extrinsic, with a wait
\* flag set, a call whose _do_set_weights returned (success, message) gives
\* True exactly when success is true and False exactly when it is false.
C14_WaitFollowsSuccess ==
    \A u \in 0..spawned :
        (Answered(u) /\ ~NoWait(unit[u].args)) =>
            /\ unit[u].result \in {PyTrue, PyFalse}
            /\ unit[u].result = PyTrue <=> unit[u].answer = "success"
            /\ unit[u].result = PyFalse <=> unit[u].answer = "failure"
            /\ (u = 0 /\ cpc = "returned") => ret = unit[u].result

C14_Witness ==
    /\ kind = "set_root_weights" /\ cpc = "returned"
    /\ Answered(0) /\ unit[0].args.wait_for_inclusion
    /\ unit[0].answer = "failure" /\ ret = PyFalse

\* A set_root_weights_extrinsic call that has read min_allowed_weights and
\* max_weight_limit and is past its count check.
RootWeightsChecked ==
    /\ kind = "set_root_weights"
    /\ unit[0].min_allowed # NotRead
    /\ unit[0].pc # "rw_params"

\* Every positive weight has a netuid at its position.
Indexable(a) ==
    \A i \in 1..Len(a.weights) : a.weights[i] > 0 => i <= Len(a.uids)

\* What C15 says of a checked call: the insufficient-weights error is raised
\* exactly when the positive entries are fewer than min_allowed_weights; it
\* carries (required, actual) and comes before the normalizer, the prompt,
\* the encoder and _do_set_weights.
InsufficientExactly ==
    LET n == NonZeroCount(unit[0].args.weights) IN
    /\ unit[0].outcome = "InsufficientWeights" <=> n < unit[0].min_allowed
    /\ n < unit[0].min_allowed =>
          /\ unit[0].pc = "exited" /\ unit[0].result = Raised
          /\ unit[0].detail = <<unit[0].min_allowed, n>>
          /\ ~unit[0].prompted /\ ~unit[0].declined
          /\ unit[0].norm_in = NotHanded /\ unit[0].conv_in = NotHanded
          /\ unit[0].issued = 0

FilteredVector(a) ==
    [uids |-> non_zero_weight_uids(a.uids, a.weights),
     weights |-> non_zero_weights(a.weights)]

\* C16: in set_root_weights_extrinsic the vector handed to normalize_max_weight
\* and to convert_weights_and_uids_for_emit is the caller's vector without
\* the entries of weight <= 0, and the uids given to _do_set_weights are the
\* uids of those entries.
C16_FilteredVectorHandedOn ==
    (kind = "set_root_weights" /\ Indexable(unit[0].args)) =>
        /\ unit[0].norm_in # NotHanded =>
              unit[0].norm_in = FilteredVector(unit[0].args)
        /\ unit[0].conv_in # NotHanded =>
              unit[0].conv_in = FilteredVector(unit[0].args)
        /\ unit[0].issued = 1 =>
              {unit[0].emitted[k][1] : k \in 1..Len(unit[0].emitted)}
                 = {unit[0].args.uids[i] :
                       i \in non_zero_weight_idx(unit[0].args.weights)}

\* C17: a malformed weight vector (duplicate uid, lists of different lengths,
\* negative weight) makes set_weights_extrinsic and set_root_weights_extrinsic
\* fail with the invalid-input error before any chain read, before the
\* normalizer, and without anything encoded or submitted.
C17_MalformedRejectedFirst ==
    \A u \in 0..spawned :
        (SetWeightsFrame(u) /\ Returned(u)
            /\ InvalidInput(unit[u].args.uids, unit[u].args.weights)) =>
            /\ unit[u].result = Raised
            /\ unit[u].outcome = "InvalidInput"
            /\ unit[u].reads = 0
            /\ unit[u].norm_in = NotHanded
            /\ unit[u].emitted = <<>> /\ unit[u].issued = 0

\* The fixed-point value submitted for uid in the pairs e.
ValueOf(e, uid) == e[CHOOSE k \in 1..Len(e) : e[k][1] = uid][2]

ReadFailureFatal ==
    /\ unit[0].pc = "exited" /\ unit[0].result = Raised
    /\ unit[0].outcome = "ChainQueryError"
    /\ cpc = "returned" => ret = Raised
    /\ IF kind = "root_register"
       THEN unit[0].reads = 1 + unit[0].requeried /\ unit[0].requeried <= 1
       ELSE unit[0].reads \in {1, 2}

\* C19 (as claimed): a chain read that raises (is_computekey_registered,
\* min_allowed_weights, max_weight_limit) ends the call with the error, is not
\* retried, and the call has issued and issues no submission.
C19_ReadFailureBeforeSubmission ==
    unit[0].readFailed => (ReadFailureFatal /\ unit[0].issued = 0)

\* C19 (amended): a chain read that raises ends the call with the error and
\* is not retried; no submission was issued when the read is one made before
\* the submission, and exactly the one already answered with success when it
\* is the final is_computekey_registered of root_register_extrinsic.
C19_ReadFailureFatal ==
    unit[0].readFailed =>
        /\ ReadFailureFatal
        /\ unit[0].issued = unit[0].requeried
        /\ unit[0].issued = 1 =>
              kind = "root_register" /\ unit[0].answer = "success"

C19_Witness ==
    /\ kind = "set_root_weights" /\ cpc = "returned" /\ ret = Raised
    /\ unit[0].readFailed /\ unit[0].reads = 2 /\ unit[0].issued = 0

\* C20: an exception raised by _do_set_weights never leaves
\* set_weights_extrinsic or set_root_weights_extrinsic: the call returns
\* False, with and without wait flags; an exception raised by
\* _do_root_register leaves root_register_extrinsic, which returns nothing.
C20_SubmissionErrorCaughtOrNot ==
    \A u \in 0..spawned :
        unit[u].answer = "raise" =>
            /\ unit[u].pc \in {"exited", "killed"}
            /\ IF SetWeightsFrame(u)
               THEN /\ unit[u].result = PyFalse
                    /\ (u = 0 /\ cpc = "returned") => ret = PyFalse
               ELSE /\ kind = "root_register"
                    /\ unit[u].result = Raised
                    /\ cpc = "returned" => ret = Raised

C20_Witness ==
    /\ kind = "set_root_weights" /\ cpc = "returned" /\ ret = PyFalse
    /\ NoWait(unit[0].args) /\ unit[0].answer = "raise"

====
